---------------------------- MODULE Spec2Model ----------------------------
(* A model of lib/sc/init.go: the client-id (token) cell and its refresh,  *)
(* the bounded-retry transport, the three TTL caches with their sweepers,  *)
(* the resolver operations GetUser / GetTrack / GetPlaylist, pagination    *)
(* and the playlist missing-track reconciliation.                          *)
(*                                                                         *)
(* Go strings are modelled as sequences of one-character strings, so that  *)
(* splitting, joining and replacing are computed, not assumed.  Time is a  *)
(* natural number; a time.Duration is a number of time units.  No lock is  *)
(* held across a blocking call, so each critical section of a cache lock   *)
(* (the read, the write, one sweep) is one action.  GetClientID is taken   *)
(* line by line where the token cell is studied (SpecToken); where the     *)
(* caches are studied, one upstream exchange (the token, the request, the  *)
(* decoding of the answer) is one action.                                  *)
EXTENDS Integers, Sequences, FiniteSets, TLC

VARIABLES
    now,        \* the wall clock read by time.Now()
    cell,       \* clientIdCache
    caches,     \* usersCache, tracksCache, playlistsCache
    sweeper,    \* the three goroutines started by init()
    proc,       \* each caller goroutine: its position and its locals
    site,       \* what https://soundcloud.com/h serves at present
    stored,     \* history: the last value written to each cache key
    calls,      \* history: the number of public operations started
    retry       \* one DoWithRetry invocation, attempt by attempt

vars == <<now, cell, caches, sweeper, proc, site, stored, calls, retry>>

-----------------------------------------------------------------------------
(* Bounds of the model *)

\* the clock stops advancing here
MaxTime == 3
\* public operations started in one behaviour
MaxCalls == 2
\* script tags of a probe page
MaxItems == 2

\* tracks of the longest playlist given to Playlist.GetMissingTracks
MaxTracks == 120
\* characters of an identifier given to Fix, pieces of a URL given to it
MaxLen == 3

\* the loop bound of DoWithRetry
MaxAttempts == 5
\* the chunk of stubs one reconciliation call resolves
ChunkSize == 50

\* cfg.UserTTL, cfg.TrackTTL, cfg.PlaylistTTL, cfg.ClientIDTTL in time units
UserTTL == 2
TrackTTL == 1
PlaylistTTL == 1
ClientIDTTL == 2

Procs == {"g1", "g2"}
Keys == {"a", "b"}
Types == {"user", "track", "playlist"}

TTL(c) == CASE c = "user" -> UserTTL
            [] c = "track" -> TrackTTL
            [] c = "playlist" -> PlaylistTTL

-----------------------------------------------------------------------------
(* Strings *)

\* a nil error
NoErr == "nil"

Min(a, b) == IF a <= b THEN a ELSE b

Digit(d) == <<"0", "1", "2", "3", "4", "5", "6", "7", "8", "9">>[d + 1]

RECURSIVE Digits(_)
Digits(n) == IF n < 10 THEN <<Digit(n)>> ELSE Digits(n \div 10) \o <<Digit(n % 10)>>

\* strconv.FormatInt(n, 10)
FormatInt(n) == IF n < 0 THEN <<"-">> \o Digits(-n) ELSE Digits(n)

\* does old occur in s at position i
OccursAt(s, old, i) ==
    /\ i + Len(old) - 1 <= Len(s)
    /\ SubSeq(s, i, i + Len(old) - 1) = old

\* strings.Index(s, old) + 1, or 0 when old does not occur
Index(s, old) ==
    LET hits == {i \in 1..Len(s) : OccursAt(s, old, i)}
    IN  IF hits = {} THEN 0 ELSE CHOOSE i \in hits : \A j \in hits : i <= j

\* strings.Replace(s, old, new, 1), old not empty
ReplaceFirst(s, old, new) ==
    LET i == Index(s, old)
    IN  IF i = 0 THEN s
        ELSE SubSeq(s, 1, i - 1) \o new \o SubSeq(s, i + Len(old), Len(s))

\* strings.Split(s, sep) for a one-character sep: always at least one piece
Split(s, sep) ==
    LET seps == SelectSeq([i \in 1..Len(s) |-> i], LAMBDA i : s[i] = sep)
        cuts == <<0>> \o seps \o <<Len(s) + 1>>
    IN  [k \in 1..(Len(cuts) - 1) |-> SubSeq(s, cuts[k] + 1, cuts[k + 1] - 1)]

\* "-large." and "-t200x200."
Large == <<"-", "l", "a", "r", "g", "e", ".">>
T200 == <<"-", "t", "2", "0", "0", "x", "2", "0", "0", ".">>

\* strings.Replace(x, "-large.", "-t200x200.", 1)
FixArtwork(s) == ReplaceFirst(s, Large, T200)

\* ls := strings.Split(id, ":"); ls[len(ls)-1]
LastSegment(id) == LET ls == Split(id, ":") IN ls[Len(ls)]

\* func (u *Track) Fix()
TrackFix(t) ==
    [t EXCEPT !.Artwork = FixArtwork(t.Artwork),
              !.ID = IF t.ID = <<>> THEN FormatInt(t.IDint) ELSE LastSegment(t.ID)]

\* func (u *User) Fix()
UserFix(u) ==
    [u EXCEPT !.Avatar = FixArtwork(u.Avatar), !.ID = LastSegment(u.ID)]

-----------------------------------------------------------------------------
(* DoWithRetry *)

\* what one httpc.Do can give: no error and a response with a status, an
\* error for which os.IsTimeout holds, fasthttp.ErrTimeout, or another error
TransportErrs == {"os_timeout", "fasthttp.ErrTimeout", "connection_closed"}
Statuses == {200, 404}
Outcomes == [err : {NoErr}, status : Statuses] \cup [err : TransportErrs, status : {0}]

\* os.IsTimeout(err)
OsIsTimeout(err) == err = "os_timeout"

\* the negation of line 141's condition: the error is one the loop retries
Retryable(err) == OsIsTimeout(err) \/ err = "fasthttp.ErrTimeout"

RetryStart == [i |-> 0, err |-> NoErr, status |-> 0, attempts |-> 0, done |-> FALSE]

\* a loop that runs while i <= 5
RetryAttemptMutant(st, out) ==
    LET tried == [st EXCEPT !.err = out.err, !.attempts = @ + 1]
    IN  IF out.err = NoErr THEN [tried EXCEPT !.status = out.status, !.done = TRUE]
        ELSE IF ~Retryable(out.err) THEN [tried EXCEPT !.done = TRUE]
        ELSE [tried EXCEPT !.i = @ + 1, !.done = (st.i + 1 > MaxAttempts)]
\* one iteration of the loop of DoWithRetry, the transport giving out
RetryAttempt(st, out) ==
    LET tried == [st EXCEPT !.err = out.err, !.attempts = @ + 1]
    IN  IF out.err = NoErr THEN [tried EXCEPT !.status = out.status, !.done = TRUE]
        ELSE IF ~Retryable(out.err) THEN [tried EXCEPT !.done = TRUE]
        ELSE [tried EXCEPT !.i = @ + 1, !.done = ~(st.i + 1 < MaxAttempts)]

\* DoWithRetry run to its return against a transport that gives script[k] at
\* its k-th call
RECURSIVE RetryFrom(_, _)
RetryFrom(st, script) ==
    IF st.done THEN st ELSE RetryFrom(RetryAttempt(st, script[st.attempts + 1]), script)

DoWithRetry(script) == RetryFrom(RetryStart, script)

-----------------------------------------------------------------------------
(* What the upstream service can answer *)

None == "none"

Soundcloud == <<"s", "o", "u", "n", "d", "c", "l", "o", "u", "d">>
UsersWord == <<"u", "s", "e", "r", "s">>
TracksWord == <<"t", "r", "a", "c", "k", "s">>

\* "soundcloud:<word>:<n>"
Urn(word, n) == Soundcloud \o <<":">> \o word \o <<":">> \o FormatInt(n)

\* "/<name>-large.jpg"
LargeURL(name) == <<"/", name>> \o Large \o <<"j", "p", "g">>

\* a complete track as the API returns it, and the stub a playlist may hold
\* in its place: an id and nothing else
FullTrack(n, title) ==
    [Kind |-> "track", ID |-> Urn(TracksWord, n), IDint |-> n, Title |-> <<title>>,
     Artwork |-> LargeURL("a")]
StubTrack(n) ==
    [Kind |-> "track", ID |-> <<>>, IDint |-> n, Title |-> <<>>, Artwork |-> <<>>]

\* the zero value of the struct of entity type c
Zero(c) ==
    CASE c = "user" -> [Kind |-> "", ID |-> <<>>, Avatar |-> <<>>]
      [] c = "track" -> [Kind |-> "", ID |-> <<>>, IDint |-> 0, Title |-> <<>>,
                         Artwork |-> <<>>]
      [] c = "playlist" -> [Kind |-> "", Artwork |-> <<>>, Tracks |-> <<>>,
                            MissingTracks |-> <<>>]

\* what cfg.JSON.Unmarshal gives: the decoded value and no error, or an error
Decoded(v) == [err |-> NoErr, val |-> v]
Undecodable(zero) == [err |-> "decode", val |-> zero]

\* the bodies /resolve can give, decoded into the struct of entity type c:
\* two versions of the entity, an object of another kind, or no JSON
ResolveBodies(c) ==
    {Undecodable(Zero(c))} \cup
    CASE c = "user" ->
           {Decoded([Kind |-> "user", ID |-> Urn(UsersWord, 7), Avatar |-> LargeURL(n)]) :
              n \in {"a", "b"}}
           \cup {Decoded([Kind |-> "playlist", ID |-> Urn(UsersWord, 7), Avatar |-> <<>>])}
      [] c = "track" ->
           {Decoded(FullTrack(4, t)) : t \in {"x", "y"}}
           \cup {Decoded([FullTrack(4, "x") EXCEPT !.Kind = "user"])}
      [] c = "playlist" ->
           {Decoded([Kind |-> "playlist", Artwork |-> LargeURL("p"), Tracks |-> ts,
                     MissingTracks |-> <<>>]) :
              ts \in {<<FullTrack(1, "x"), StubTrack(2)>>, <<FullTrack(1, "x")>>}}
           \cup {Decoded([Kind |-> "track", Artwork |-> <<>>, Tracks |-> <<>>,
                          MissingTracks |-> <<>>])}

\* the number a string of digits writes
DigitValue(ch) == CHOOSE d \in 0..9 : Digit(d) = ch
RECURSIVE Atoi(_)
Atoi(s) == IF s = <<>> THEN 0 ELSE 10 * Atoi(SubSeq(s, 1, Len(s) - 1)) + DigitValue(s[Len(s)])

Reverse(s) == [i \in 1..Len(s) |-> s[Len(s) + 1 - i]]

DropFirst(s) == IF s = <<>> THEN <<>> ELSE Tail(s)

\* the bodies /tracks?ids=<ids> can give, decoded into []*Track: the tracks
\* asked for, in the order asked or another, with some or all of them left
\* out, or no JSON array at all
TracksBodies(ids) ==
    LET asked == SelectSeq(Split(ids, ","), LAMBDA id : id # <<>>)
        all == [i \in 1..Len(asked) |-> FullTrack(Atoi(asked[i]), "z")]
    IN  {Decoded(ts) : ts \in {all, Reverse(all), DropFirst(all), <<>>}}
        \cup {Undecodable(<<>>)}

-----------------------------------------------------------------------------
(* Playlist reconciliation *)

\* the first loop of Playlist.GetMissingTracks: a MissingTrack{ID, Index}
\* for every track without a title, in playlist order (Index counts from 1)
Missing(tracks) ==
    SelectSeq([i \in 1..Len(tracks) |-> [ID |-> tracks[i].ID, Index |-> i]],
              LAMBDA m : tracks[m.Index].Title = <<>>)

\* func JoinMissingTracks(missing []MissingTrack) (st string): what the loop
\* appends for the elements lo..hi
RECURSIVE JoinFrom(_, _, _)
JoinFrom(missing, lo, hi) ==
    IF lo > hi THEN <<>>
    ELSE IF lo = hi
         THEN missing[lo].ID \o (IF lo # Len(missing) THEN <<",">> ELSE <<>>)
         ELSE LET mid == (lo + hi) \div 2
              IN  JoinFrom(missing, lo, mid) \o JoinFrom(missing, mid + 1, hi)

JoinMissingTracks(missing) == JoinFrom(missing, 1, Len(missing))

\* a slicing that loses the first identifier of what is left
ChunkMutant(missing) ==
    IF Len(missing) > ChunkSize
    THEN [first |-> SubSeq(missing, 1, ChunkSize),
          next |-> SubSeq(missing, ChunkSize + 2, Len(missing))]
    ELSE [first |-> missing, next |-> <<>>]

\* the slicing of func GetMissingTracks: what is fetched now and what is left
Chunk(missing) ==
    IF Len(missing) > ChunkSize
    THEN [first |-> SubSeq(missing, 1, ChunkSize),
          next |-> SubSeq(missing, ChunkSize + 1, Len(missing))]
    ELSE [first |-> missing, next |-> <<>>]

\* a splice that takes MissingTrack.Index for the position before the stub
SpliceMutant(tracks, missing, res) ==
    [i \in 1..Len(tracks) |->
        LET olds == {m \in 1..Len(missing) : missing[m].Index + 1 = i}
            news == {j \in 1..Len(res) :
                       \E m \in olds : res[j].ID = missing[m].ID}
        IN  IF news = {} THEN tracks[i]
            ELSE res[CHOOSE j \in news : \A j2 \in news : j2 <= j]]

\* the two nested loops of Playlist.GetMissingTracks: every stub of missing
\* takes the last track of res that has its ID
Splice(tracks, missing, res) ==
    [i \in 1..Len(tracks) |->
        LET olds == {m \in 1..Len(missing) : missing[m].Index = i}
            news == {j \in 1..Len(res) :
                       \E m \in olds : res[j].ID = missing[m].ID}
        IN  IF news = {} THEN tracks[i]
            ELSE res[CHOOSE j \in news : \A j2 \in news : j2 <= j]]

\* []*Track after the loop of GetTracks that fixes every decoded track
FixAll(ts) == [i \in 1..Len(ts) |-> TrackFix(ts[i])]

\* Playlist.GetMissingTracks after a batch fetch that gave res
Reconciled(pl, res) ==
    LET missing == Missing(pl.Tracks)
    IN  [pl EXCEPT !.Tracks = Splice(pl.Tracks, missing, res),
                   !.MissingTracks = JoinMissingTracks(Chunk(missing).next)]

\* the ids Playlist.GetMissingTracks asks GetTracks for
BatchIDs(pl) == JoinMissingTracks(Chunk(Missing(pl.Tracks)).first)

-----------------------------------------------------------------------------
(* The state after package initialisation *)

GetOps == {"GetUser", "GetTrack", "GetPlaylist"}

\* the cache an operation reads and writes
TypeOf(op) == CASE op = "GetUser" -> "user"
                [] op = "GetTrack" -> "track"
                [] op = "GetPlaylist" -> "playlist"

\* a goroutine that is in no operation.  key is the argument or the receiver
\* the operation was called with.  reqs, seen, wrote and ret are history: the
\* upstream requests the operation issued, what its cache read found or its
\* page response held, whether it wrote a cache, and what it returned.
Idle ==
    [pc |-> "idle", op |-> None, key |-> None, next |-> None, cid |-> None,
     ver |-> None, scripts |-> <<>>, u |-> None, err |-> NoErr, reqs |-> <<>>,
     seen |-> None, wrote |-> FALSE, ret |-> None]

\* var clientIdCache struct{...}: the zero value
CellInit == [ClientIDString |-> None, Version |-> None, NextCheck |-> 0]

\* no DoWithRetry call under way
RetryIdle == [st |-> [RetryStart EXCEPT !.done = TRUE], log |-> <<>>]

Versions == {"v1", "v2"}

\* the client id the scripts of a version embed
TokenOf(ver) == IF ver = "v1" THEN "t1" ELSE "t2"

\* what fetching one script gives: an error, a body without a client id, a
\* body with one
ScriptOutcomes == {"fail", "nomatch", "match"}

SeqsUpTo(S, n) == UNION {[1..k -> S] : k \in 0..n}

\* the pages the site can serve: with a version marker or without, and with
\* some script tags
Sites == [ver : Versions \cup {None}, scripts : SeqsUpTo(ScriptOutcomes, MaxItems)]

\* a site in working order
GoodSite == [ver |-> "v1", scripts |-> <<"nomatch", "match">>]

InitWith(s) ==
    /\ now = 0
    /\ cell = CellInit
    /\ caches = [c \in Types |-> <<>>]
    /\ sweeper = [c \in Types |-> [nextTick |-> TTL(c)]]
    /\ proc = [g \in Procs |-> Idle]
    /\ site = s
    /\ stored = [c \in Types |-> [k \in Keys |-> [has |-> FALSE, val |-> Zero(c), at |-> 0]]]
    /\ calls = 0
    /\ retry = RetryIdle

Init == InitWith(GoodSite)


-----------------------------------------------------------------------------
(* GetClientID *)

\* the operation returns (val, err) to its caller
Finish(pr, err, val) ==
    [pr EXCEPT !.pc = "done", !.next = None, !.cid = None, !.ver = None,
               !.scripts = <<>>, !.u = None, !.err = NoErr,
               !.ret = [err |-> err, val |-> val]]

\* GetClientID returns (cid, err) to the operation that called it: every
\* caller returns the error as its own, or goes on with the client id
CidReturn(pr, cid, err) ==
    IF pr.op = "GetClientID" THEN Finish(pr, err, cid)
    ELSE IF err # NoErr THEN Finish(pr, err, pr.u)
    ELSE [pr EXCEPT !.pc = pr.next, !.cid = cid, !.ver = None, !.scripts = <<>>]

\* history: the operation issues an upstream request
Request(pr, what, arg) == [pr EXCEPT !.reqs = Append(@, [what |-> what, arg |-> arg])]

\* what fasthttp.Do of the probe can give: an error, or the page of the site
ProbeOutcomes ==
    {[err |-> "connection_closed", ver |-> None, scripts |-> <<>>],
     [err |-> NoErr, ver |-> site.ver, scripts |-> site.scripts]}

\* line 60: the fast path
CidCheckStep(pr, cl, t) ==
    IF cl.NextCheck > t THEN CidReturn(pr, cl.ClientIDString, NoErr)
    ELSE [pr EXCEPT !.pc = "probe"]

\* lines 64-100: the probe, the version marker, the script tags
ProbeStep(pr, cl, page) ==
    IF page.err # NoErr THEN CidReturn(pr, None, page.err)
    ELSE IF page.ver = None THEN CidReturn(pr, None, "ErrVersionNotFound")
    ELSE IF page.ver = cl.Version THEN CidReturn(pr, cl.ClientIDString, NoErr)
    ELSE IF page.scripts = <<>> THEN CidReturn(pr, None, "ErrScriptNotFound")
    ELSE [pr EXCEPT !.pc = "script", !.ver = page.ver, !.scripts = page.scripts]

\* a loop that gives up at the first script it cannot fetch
ScriptStepMutant(pr) ==
    IF Head(pr.scripts) = "match" THEN [pr EXCEPT !.pc = "w_id"]
    ELSE IF Head(pr.scripts) = "fail" \/ Tail(pr.scripts) = <<>>
         THEN CidReturn(pr, None, "ErrIDNotFound")
    ELSE [pr EXCEPT !.scripts = Tail(@)]

\* lines 102-122: one script fetched and searched
ScriptStep(pr) ==
    IF Head(pr.scripts) = "match" THEN [pr EXCEPT !.pc = "w_id"]
    ELSE IF Tail(pr.scripts) = <<>> THEN CidReturn(pr, None, "ErrIDNotFound")
    ELSE [pr EXCEPT !.scripts = Tail(@)]

\* lines 124-125
WriteIDStep(cl, pr) == [cl EXCEPT !.ClientIDString = TokenOf(pr.ver)]
\* line 126
WriteVersionStep(cl, pr) == [cl EXCEPT !.Version = pr.ver]
\* line 127
WriteNextCheckStep(cl, t) == [cl EXCEPT !.NextCheck = t + ClientIDTTL]

\* GetClientID from position pr.pc to its return, nothing else running
\* meanwhile: the goroutine and the cell afterwards
RECURSIVE GetClientID(_, _, _, _)
GetClientID(pr, cl, t, page) ==
    CASE pr.pc = "cid" -> GetClientID(CidCheckStep(pr, cl, t), cl, t, page)
      [] pr.pc = "probe" ->
           GetClientID(ProbeStep(Request(pr, "probe", <<>>), cl, page), cl, t, page)
      [] pr.pc = "script" ->
           GetClientID(ScriptStep(Request(pr, "script", <<>>)), cl, t, page)
      [] pr.pc = "w_id" ->
           GetClientID([pr EXCEPT !.pc = "w_ver"], WriteIDStep(cl, pr), t, page)
      [] pr.pc = "w_ver" ->
           GetClientID([pr EXCEPT !.pc = "w_next"], WriteVersionStep(cl, pr), t, page)
      [] pr.pc = "w_next" ->
           LET written == WriteNextCheckStep(cl, t)
           IN  [pr |-> CidReturn(pr, written.ClientIDString, NoErr), cell |-> written]
      [] OTHER -> [pr |-> pr, cell |-> cl]

\* a goroutine calls GetClientID (history: the cell as the call found it)
CallGetClientID(g) ==
    /\ proc[g].pc = "idle"
    /\ calls < MaxCalls
    /\ calls' = calls + 1
    /\ proc' = [proc EXCEPT ![g] = [Idle EXCEPT !.op = "GetClientID", !.pc = "cid",
                                                !.seen = cell]]
    /\ UNCHANGED <<now, cell, caches, sweeper, site, stored, retry>>

CidCheck(g) ==
    /\ proc[g].pc = "cid"
    /\ proc' = [proc EXCEPT ![g] = CidCheckStep(@, cell, now)]
    /\ UNCHANGED <<now, cell, caches, sweeper, site, stored, calls, retry>>

CidProbe(g) ==
    /\ proc[g].pc = "probe"
    /\ \E page \in ProbeOutcomes :
         proc' = [proc EXCEPT ![g] = ProbeStep(Request(@, "probe", <<>>), cell, page)]
    /\ UNCHANGED <<now, cell, caches, sweeper, site, stored, calls, retry>>

CidScript(g) ==
    /\ proc[g].pc = "script"
    /\ proc' = [proc EXCEPT ![g] = ScriptStep(Request(@, "script", <<>>))]
    /\ UNCHANGED <<now, cell, caches, sweeper, site, stored, calls, retry>>

CidWriteID(g) ==
    /\ proc[g].pc = "w_id"
    /\ cell' = WriteIDStep(cell, proc[g])
    /\ proc' = [proc EXCEPT ![g].pc = "w_ver"]
    /\ UNCHANGED <<now, caches, sweeper, site, stored, calls, retry>>

CidWriteVersion(g) ==
    /\ proc[g].pc = "w_ver"
    /\ cell' = WriteVersionStep(cell, proc[g])
    /\ proc' = [proc EXCEPT ![g].pc = "w_next"]
    /\ UNCHANGED <<now, caches, sweeper, site, stored, calls, retry>>

\* lines 127-128
CidWriteNextCheck(g) ==
    /\ proc[g].pc = "w_next"
    /\ cell' = WriteNextCheckStep(cell, now)
    /\ proc' = [proc EXCEPT ![g] = CidReturn(@, cell.ClientIDString, NoErr)]
    /\ UNCHANGED <<now, caches, sweeper, site, stored, calls, retry>>

\* the site in working order is replaced by another deployment, once
Deploy(s) ==
    /\ site = GoodSite
    /\ s # GoodSite
    /\ site' = s
    /\ UNCHANGED <<now, cell, caches, sweeper, proc, stored, calls, retry>>

\* the caller has its result; what the operation did is forgotten
Return(g) ==
    /\ proc[g].pc = "done"
    /\ proc' = [proc EXCEPT ![g] = Idle]
    /\ UNCHANGED <<now, cell, caches, sweeper, site, stored, calls, retry>>

\* time passes
Advance ==
    /\ now < MaxTime
    /\ now' = now + 1
    /\ UNCHANGED <<cell, caches, sweeper, proc, site, stored, calls, retry>>

\* a return is observed before anything else happens
Quiet == \A g \in Procs : proc[g].pc # "done"

-----------------------------------------------------------------------------
(* Resolve, GetUser, GetTrack, GetPlaylist *)

\* what a DoWithRetry call can return, the transport free to give any
\* outcome at each attempt: the error and the status of the response
RetryResults ==
    {[err |-> r.err, status |-> r.status] :
        r \in {DoWithRetry(script) : script \in [1..MaxAttempts -> Outcomes]}}

\* fmt.Errorf("...: got status code %d", resp.StatusCode())
StatusErr(code) == IF code = 404 THEN "got status code 404" ELSE "got status code"

\* the test with the comparison that lets an entry be read at its expiry
HitMutant(c, k) == k \in DOMAIN caches[c] /\ caches[c][k].Expires >= now

\* the test of lines 184, 213 and 395: ok && cell.Expires.After(time.Now())
Hit(c, k) == k \in DOMAIN caches[c] /\ caches[c][k].Expires > now

\* a store that keeps the entry a key already has
PutMutant(m, k, e) == IF k \in DOMAIN m THEN m ELSE [x \in DOMAIN m \cup {k} |-> e]

\* m[k] = e
Put(m, k, e) == [x \in DOMAIN m \cup {k} |-> IF x = k THEN e ELSE m[x]]

\* history: whether the key's last stored value was within its TTL when the
\* operation read the cache
Seen(c, k) ==
    IF ~stored[c][k].has THEN "never"
    ELSE IF now < stored[c][k].at + TTL(c) THEN "fresh" ELSE "expired"

\* lines 182-189, 211-217, 393-399: the read under the shared lock
CallGet(g, op, k) ==
    LET c == TypeOf(op)
        pr == [Idle EXCEPT !.op = op, !.key = k, !.seen = Seen(c, k), !.u = Zero(c)]
    IN  /\ proc[g].pc = "idle"
        /\ calls < MaxCalls
        /\ calls' = calls + 1
        /\ proc' = [proc EXCEPT ![g] =
                      IF Hit(c, k) THEN Finish(pr, NoErr, caches[c][k].Value)
                      ELSE [pr EXCEPT !.pc = "resolve"]]
        /\ UNCHANGED <<now, cell, caches, sweeper, site, stored, retry>>

\* AfterResolve without the batch fetch of a playlist, and without the kind test
AfterResolveNoFetch(pr, u) ==
    LET c == TypeOf(pr.op)
    IN  IF u.Kind # c THEN Finish(pr, "ErrKindNotCorrect", u)
        ELSE IF c = "user" THEN [pr EXCEPT !.pc = "write", !.u = UserFix(u)]
        ELSE IF c = "track" THEN [pr EXCEPT !.pc = "write", !.u = TrackFix(u)]
        ELSE [pr EXCEPT !.pc = "write", !.u = [u EXCEPT !.Tracks = FixAll(u.Tracks)]]
AfterResolveAnyKind(pr, u) ==
    LET c == TypeOf(pr.op)
    IN  IF c = "user" THEN [pr EXCEPT !.pc = "write", !.u = UserFix(u)]
        ELSE IF c = "track" THEN [pr EXCEPT !.pc = "write", !.u = TrackFix(u)]
        ELSE [pr EXCEPT !.pc = "tracks", !.u = [u EXCEPT !.Tracks = FixAll(u.Tracks)]]

\* lines 197-202, 225-229, 407-411 with 423-429: the kind test and Fix, up
\* to the batch fetch that Playlist.Fix(true) goes into
AfterResolve(pr, u) ==
    LET c == TypeOf(pr.op)
    IN  IF u.Kind # c THEN Finish(pr, "ErrKindNotCorrect", u)
        ELSE IF c = "user" THEN [pr EXCEPT !.pc = "write", !.u = UserFix(u)]
        ELSE IF c = "track" THEN [pr EXCEPT !.pc = "write", !.u = TrackFix(u)]
        ELSE [pr EXCEPT !.pc = "tracks", !.u = [u EXCEPT !.Tracks = FixAll(u.Tracks)]]

\* ResolveResult without the return after the status test
ResolveResultMutant(pr, r, b) ==
    IF r.err # NoErr THEN Finish(pr, r.err, Zero(TypeOf(pr.op)))
    ELSE IF b.err # NoErr THEN Finish(pr, b.err, b.val)
    ELSE AfterResolve([pr EXCEPT !.err = IF r.status # 200 THEN StatusErr(r.status)
                                         ELSE NoErr], b.val)

\* lines 165-179: Resolve after DoWithRetry returned r and the body decoded
\* to b, and then the caller of Resolve
ResolveResult(pr, r, b) ==
    IF r.err # NoErr THEN Finish(pr, r.err, Zero(TypeOf(pr.op)))
    ELSE IF r.status # 200 THEN Finish(pr, StatusErr(r.status), Zero(TypeOf(pr.op)))
    ELSE IF b.err # NoErr THEN Finish(pr, b.err, b.val)
    ELSE AfterResolve(pr, b.val)

\* Resolve, lines 149-180, and what its caller does with the result
ResolveDo(g) ==
    /\ proc[g].pc = "resolve"
    /\ \E page \in ProbeOutcomes, r \in RetryResults,
          b \in ResolveBodies(TypeOf(proc[g].op)) :
         LET tk == GetClientID([proc[g] EXCEPT !.pc = "cid", !.next = "do"],
                               cell, now, page)
         IN  /\ cell' = tk.cell
             /\ proc' = [proc EXCEPT ![g] =
                           IF tk.pr.pc = "done" THEN tk.pr
                           ELSE ResolveResult(Request(tk.pr, "resolve", <<>>), r, b)]
    /\ UNCHANGED <<now, caches, sweeper, site, stored, calls, retry>>

\* lines 545-560 and 603-618, then 435: GetTracks after DoWithRetry returned
\* r and the body decoded to b, the splice, and the rest of Playlist.Fix
TracksResult(pr, r, b) ==
    IF r.err # NoErr THEN Finish(pr, r.err, pr.u)
    ELSE IF b.err # NoErr THEN Finish(pr, b.err, pr.u)
    ELSE LET pl == Reconciled(pr.u, FixAll(b.val))
         IN  IF pr.op = "GetPlaylist"
             THEN [pr EXCEPT !.pc = "write", !.u = [pl EXCEPT !.Artwork = FixArtwork(@)]]
             ELSE Finish(pr, NoErr, pl)

\* history: what DoWithRetry returned to GetTracks and what the body decoded
\* to, kept for a direct call of Playlist.GetMissingTracks
Heard(pr, r, b) ==
    IF pr.op = "GetPlaylist" THEN pr
    ELSE [pr EXCEPT !.seen = [err |-> r.err, status |-> r.status, res |-> FixAll(b.val)]]

\* Playlist.GetMissingTracks, lines 594-619, with GetTracks, lines 529-561
TracksDo(g) ==
    /\ proc[g].pc = "tracks"
    /\ LET ids == BatchIDs(proc[g].u)
       IN  \E page \in ProbeOutcomes, r \in RetryResults, b \in TracksBodies(ids) :
             LET tk == GetClientID([proc[g] EXCEPT !.pc = "cid", !.next = "do"],
                                   cell, now, page)
             IN  /\ cell' = tk.cell
                 /\ proc' = [proc EXCEPT ![g] =
                               IF tk.pr.pc = "done" THEN tk.pr
                               ELSE TracksResult(Heard(Request(tk.pr, "tracks", ids), r, b),
                                                 r, b)]
    /\ UNCHANGED <<now, caches, sweeper, site, stored, calls, retry>>

\* an entry stored without its TTL
NewEntryMutant(c, u) == [Value |-> u, Expires |-> now]

\* the entry lines 205, 232 and 417 store
NewEntry(c, u) == [Value |-> u, Expires |-> now + TTL(c)]

\* lines 204-208, 231-235, 416-420: the write under the exclusive lock
CacheWrite(g) ==
    LET pr == proc[g]
        c == TypeOf(pr.op)
    IN  /\ pr.pc = "write"
        /\ caches' = [caches EXCEPT ![c] = Put(@, pr.key, NewEntry(c, pr.u))]
        /\ stored' = [stored EXCEPT ![c][pr.key] = [has |-> TRUE, val |-> pr.u, at |-> now]]
        /\ proc' = [proc EXCEPT ![g] =
                      Finish([pr EXCEPT !.wrote = TRUE],
                             IF pr.op = "GetUser" THEN pr.err ELSE NoErr, pr.u)]
        /\ UNCHANGED <<now, cell, sweeper, site, calls, retry>>

-----------------------------------------------------------------------------
(* The sweepers of init() *)

\* the test with the comparison turned round
ExpiredMutant(e) == e.Expires > now

\* a test that also takes the entry whose Expires is the present instant
ExpiredOrDue(e) == e.Expires <= now

\* the test of lines 646, 661 and 676: val.Expires.Before(time.Now())
Expired(e) == e.Expires < now

\* the next tick of a ticker of period d after time t.  The ticker's channel
\* holds one tick; the ticks a late receiver misses are dropped.
TickAfter(t, d) == (t \div d + 1) * d

\* the map after one range over it: lines 645-649, 660-664, 675-679
Swept(m) == [k \in {x \in DOMAIN m : ~Expired(m[x])} |-> m[k]]

\* one round of the sweeper of cache c (Lock, the range, Unlock) at some
\* time after its first tick; how late after a tick it runs is left open
Sweep(c) ==
    /\ now >= TTL(c)
    /\ caches' = [caches EXCEPT ![c] = Swept(@)]
    /\ UNCHANGED <<now, cell, sweeper, proc, site, stored, calls, retry>>

\* the same round taken at once when its tick is due
TickSweep(c) ==
    /\ now >= sweeper[c].nextTick
    /\ sweeper' = [sweeper EXCEPT ![c].nextTick = TickAfter(now, TTL(c))]
    /\ caches' = [caches EXCEPT ![c] = Swept(@)]
    /\ UNCHANGED <<now, cell, proc, site, stored, calls, retry>>

\* time passes, every sweeper having taken the ticks that were due
TimelyAdvance ==
    /\ \A c \in Types : now < sweeper[c].nextTick
    /\ now < MaxTime
    /\ now' = now + 1
    /\ UNCHANGED <<cell, caches, sweeper, proc, site, stored, calls, retry>>

-----------------------------------------------------------------------------
(* DoWithRetry, attempt by attempt *)

\* a caller enters DoWithRetry: i := 0
RetryCall ==
    /\ retry.st.done
    /\ retry' = [st |-> RetryStart, log |-> <<>>]
    /\ UNCHANGED <<now, cell, caches, sweeper, proc, site, stored, calls>>

\* one httpc.Do and the two tests after it
RetryStep ==
    /\ ~retry.st.done
    /\ \E out \in Outcomes :
         retry' = [st |-> RetryAttempt(retry.st, out), log |-> Append(retry.log, out)]
    /\ UNCHANGED <<now, cell, caches, sweeper, proc, site, stored, calls>>

NextRetry == RetryCall \/ RetryStep

SpecRetry == Init /\ [][NextRetry]_vars

\* C1: DoWithRetry stops at the first attempt without error, never makes
\* more than 5 attempts, makes exactly 5 when every attempt times out and
\* then returns the timeout error, and makes exactly 1 attempt when the
\* first fails with an error that is no timeout, returning that error.
C1_RetryBound ==
    LET log == retry.log
        n == Len(log)
    IN  /\ n <= 5
        /\ retry.st.attempts = n
        /\ \A k \in 1..(n - 1) : Retryable(log[k].err)
        /\ ~retry.st.done => n < 5
        /\ (retry.st.done /\ n > 0) =>
              /\ retry.st.err = log[n].err
              /\ (\A k \in 1..n : Retryable(log[k].err)) => n = 5
              /\ ~Retryable(log[1].err) => n = 1
              /\ log[n].err = NoErr => retry.st.status = log[n].status

\* five timeouts in a row, the call has returned the last one
C1_Witness ==
    /\ retry.st.done
    /\ Len(retry.log) = 5
    /\ \A k \in 1..5 : Retryable(retry.log[k].err)
    /\ retry.st.err = "fasthttp.ErrTimeout"

-----------------------------------------------------------------------------
(* The resolver operations under concurrent callers, the sweepers running *)

Next ==
    \/ \E g \in Procs : Return(g)
    \/ /\ Quiet
       /\ \/ \E g \in Procs, op \in GetOps, k \in Keys : CallGet(g, op, k)
          \/ \E g \in Procs : ResolveDo(g)
          \/ \E g \in Procs : TracksDo(g)
          \/ \E g \in Procs : CacheWrite(g)
          \/ \E c \in Types : Sweep(c)
          \/ Advance

Spec == Init /\ [][Next]_vars

\* one caller, and sweepers that run as soon as their ticks are due
NextTimely ==
    \/ Return("g1")
    \/ /\ Quiet
       /\ \/ \E op \in GetOps, k \in Keys : CallGet("g1", op, k)
          \/ ResolveDo("g1")
          \/ TracksDo("g1")
          \/ CacheWrite("g1")
          \/ \E c \in Types : TickSweep(c)
          \/ TimelyAdvance

SpecTimely == Init /\ [][NextTimely]_vars

\* the token provider alone: concurrent GetClientID calls, the site changing
NextToken ==
    \/ \E g \in Procs : Return(g)
    \/ /\ Quiet
       /\ \/ \E g \in Procs : CallGetClientID(g)
          \/ \E g \in Procs : CidCheck(g)
          \/ \E g \in Procs : CidProbe(g)
          \/ \E g \in Procs : CidScript(g)
          \/ \E g \in Procs : CidWriteID(g)
          \/ \E g \in Procs : CidWriteVersion(g)
          \/ \E g \in Procs : CidWriteNextCheck(g)
          \/ \E s \in Sites : Deploy(s)
          \/ Advance

SpecToken == Init /\ [][NextToken]_vars

\* the site changes while no GetClientID call is under way
DeployBetweenCalls(s) ==
    /\ \A g \in Procs : proc[g].pc = "idle"
    /\ Deploy(s)

\* any site the program may be started against
InitDiscover == \E s \in Sites : InitWith(s)

\* one caller of GetClientID at a time, against any site
NextDiscover ==
    \/ Return("g1")
    \/ /\ Quiet
       /\ \/ CallGetClientID("g1")
          \/ CidCheck("g1")
          \/ CidProbe("g1")
          \/ CidScript("g1")
          \/ CidWriteID("g1")
          \/ CidWriteVersion("g1")
          \/ CidWriteNextCheck("g1")
          \/ \E s \in Sites : DeployBetweenCalls(s)
          \/ Advance

SpecDiscover == InitDiscover /\ [][NextDiscover]_vars

-----------------------------------------------------------------------------
(* Paginated.Proceed and the loop of its caller *)

\* the cursors the service hands out in next_href
Cursors == {"c1", "c2"}

\* a field of a JSON object: left out, null, or holding a value
Absent == [field |-> "absent", val |-> <<>>]
Null == [field |-> "null", val |-> <<>>]
Value(v) == [field |-> "value", val |-> v]

\* the objects a page request can be answered with
PageObjects ==
    [collection : {Absent, Null, Value(<<>>), Value(<<FullTrack(1, "x")>>)},
     next_href : {Absent, Null, Value(<<>>)} \cup {Value(<<c>>) : c \in Cursors}]

\* what Unmarshal had decoded into p when it returned an error: nothing (no
\* JSON object at all), or the fields before or beside the one whose value
\* does not fit its type
PartialObjects ==
    {[collection |-> Absent, next_href |-> Absent],
     [collection |-> Absent, next_href |-> Value(<<"c1">>)],
     [collection |-> Value(<<FullTrack(1, "x")>>), next_href |-> Absent]}

\* Paginated[Track]{Next: url}
NewPaginated(url) == [Collection |-> <<>>, Next |-> url]

\* p.Next + "&client_id=" + cid
PageURI(p, cid) == p.Next \o <<"&client_id=", cid>>

\* line 268, cfg.JSON.Unmarshal(data, p): the object decoded into the
\* struct p points to.  A field the object leaves out keeps what p held; a
\* null empties the slice, and leaves the string alone or empties it as the
\* JSON library configured in cfg has it (nullKeeps).
UnmarshalInto(p, obj, nullKeeps) ==
    [Collection |-> IF obj.collection.field = "absent" THEN p.Collection
                    ELSE obj.collection.val,
     Next |-> IF obj.next_href.field = "absent" THEN p.Next
              ELSE IF obj.next_href.field = "null" /\ nullKeeps THEN p.Next
              ELSE obj.next_href.val]

\* lines 254-268: Proceed after DoWithRetry returned r.  Unmarshal writes
\* into p as it decodes, so p holds what was decoded when it fails
ProceedResult(pr, r, b, nullKeeps) ==
    IF r.err # NoErr THEN Finish(pr, r.err, pr.u)
    ELSE IF r.status # 200 THEN Finish(pr, StatusErr(r.status), pr.u)
    ELSE IF b.err # NoErr THEN Finish(pr, b.err, UnmarshalInto(pr.u, b.val, nullKeeps))
    ELSE Finish([pr EXCEPT !.seen = b.val.next_href], NoErr,
                UnmarshalInto(pr.u, b.val, nullKeeps))

\* the functions that make a Paginated value, fetch its first page and fix
\* the items; every later page is the caller's own call of Proceed
FirstPageOps == {"UserGetTracks", "SearchTracks"}
PagedOps == FirstPageOps \cup {"Proceed"}

\* lines 281-283, for _, u := range p.Collection { u.Fix() } over a []Track:
\* u is a copy of the element and Fix has a pointer receiver, so the copy is
\* fixed and dropped and the slice is as it was
FixCopies(ts) == LET copies == FixAll(ts) IN ts

\* the same loop over a []*Track, lines 348-350: the elements are fixed
FixPointers(ts) == FixAll(ts)

\* what follows p.Proceed() in User.GetTracks (lines 276-285) and in
\* SearchTracks (lines 343-352); a caller's own Proceed has nothing after it
PagedResult(pr, r, b, nullKeeps) ==
    LET out == ProceedResult(pr, r, b, nullKeeps)
    IN  IF pr.op = "Proceed" THEN out
        ELSE IF out.ret.err # NoErr THEN [out EXCEPT !.ret.val = None]
        ELSE IF pr.op = "SearchTracks"
             THEN [out EXCEPT !.ret.val.Collection = FixPointers(@)]
             ELSE [out EXCEPT !.ret.val.Collection = FixCopies(@)]

\* func (u User) GetTracks(args string), lines 271-274: the first cursor
CallUserGetTracks(g) ==
    /\ proc[g].pc = "idle"
    /\ calls < MaxCalls
    /\ calls' = calls + 1
    /\ proc' = [proc EXCEPT ![g] =
                  [Idle EXCEPT !.op = "UserGetTracks", !.pc = "page",
                               !.u = NewPaginated(<<"c0">>)]]
    /\ UNCHANGED <<now, cell, caches, sweeper, site, stored, retry>>

\* func SearchTracks(args string), line 336
CallSearchTracks(g) ==
    /\ proc[g].pc = "idle"
    /\ calls < MaxCalls
    /\ calls' = calls + 1
    /\ proc' = [proc EXCEPT ![g] = [Idle EXCEPT !.op = "SearchTracks", !.pc = "search"]]
    /\ UNCHANGED <<now, cell, caches, sweeper, site, stored, retry>>

\* lines 337-342: the token, and the first cursor with the token in it
SearchDo(g) ==
    /\ proc[g].pc = "search"
    /\ \E page \in ProbeOutcomes :
         LET tk == GetClientID([proc[g] EXCEPT !.pc = "cid", !.next = "page"],
                               cell, now, page)
         IN  /\ cell' = tk.cell
             /\ proc' = [proc EXCEPT ![g] =
                           IF tk.pr.pc = "done" THEN tk.pr
                           ELSE [tk.pr EXCEPT !.u = NewPaginated(
                                    <<"c0", "&client_id=", tk.pr.cid>>)]]
    /\ UNCHANGED <<now, caches, sweeper, site, stored, calls, retry>>

\* a caller makes a Paginated value for a first page and calls Proceed
CallProceed(g) ==
    /\ proc[g].pc = "idle"
    /\ calls < MaxCalls
    /\ calls' = calls + 1
    /\ proc' = [proc EXCEPT ![g] =
                  [Idle EXCEPT !.op = "Proceed", !.pc = "page",
                               !.key = NewPaginated(<<"c0">>),
                               !.u = NewPaginated(<<"c0">>)]]
    /\ UNCHANGED <<now, cell, caches, sweeper, site, stored, retry>>

\* the caller's loop: for p.Next != "" { p.Proceed() }
ProceedAgain(g) ==
    /\ proc[g].pc = "done"
    /\ proc[g].op \in PagedOps
    /\ proc[g].ret.err = NoErr
    /\ proc[g].ret.val.Next # <<>>
    /\ calls < MaxCalls
    /\ calls' = calls + 1
    /\ proc' = [proc EXCEPT ![g] =
                  [Idle EXCEPT !.op = "Proceed", !.pc = "page",
                               !.key = proc[g].ret.val, !.u = proc[g].ret.val]]
    /\ UNCHANGED <<now, cell, caches, sweeper, site, stored, retry>>

\* func (p *Paginated[T]) Proceed() error, lines 238-269
ProceedDo(g) ==
    /\ proc[g].pc = "page"
    /\ \E page \in ProbeOutcomes, r \in RetryResults, nullKeeps \in BOOLEAN,
          b \in {Undecodable(obj) : obj \in PartialObjects}
                  \cup {Decoded(obj) : obj \in PageObjects} :
         LET tk == GetClientID([proc[g] EXCEPT !.pc = "cid", !.next = "do"],
                               cell, now, page)
         IN  /\ cell' = tk.cell
             /\ proc' = [proc EXCEPT ![g] =
                           IF tk.pr.pc = "done" THEN tk.pr
                           ELSE PagedResult(
                                    Request(tk.pr, "page", PageURI(tk.pr.u, tk.pr.cid)),
                                    r, b, nullKeeps)]
    /\ UNCHANGED <<now, caches, sweeper, site, stored, calls, retry>>

NextPage ==
    \/ \E g \in Procs : Return(g)
    \/ \E g \in Procs : ProceedAgain(g)
    \/ /\ Quiet
       /\ \/ \E g \in Procs : CallProceed(g)
          \/ \E g \in Procs : CallUserGetTracks(g)
          \/ \E g \in Procs : CallSearchTracks(g)
          \/ \E g \in Procs : SearchDo(g)
          \/ \E g \in Procs : ProceedDo(g)
          \/ Advance

SpecPage == Init /\ [][NextPage]_vars

-----------------------------------------------------------------------------
(* Playlist.GetMissingTracks called on a playlist of any length *)

\* a playlist as Playlist.Fix leaves its tracks: every track of the stubs
\* pattern a stub, or every third track complete, or (repeat) all stubs with
\* the tracks past position ChunkSize + 10 being the first ones over again
InputPlaylist(len, pattern) ==
    [Kind |-> "playlist", Artwork |-> <<>>, MissingTracks |-> <<>>,
     Tracks |-> [i \in 1..len |->
                   TrackFix(CASE pattern = "mixed" /\ i % 3 = 0 -> FullTrack(i, "x")
                              [] pattern = "repeat" ->
                                   StubTrack(((i - 1) % (ChunkSize + 10)) + 1)
                              [] OTHER -> StubTrack(i))]]

InputPlaylists ==
    {InputPlaylist(len, pattern) :
        len \in {0, 1, ChunkSize, ChunkSize + 1, MaxTracks},
        pattern \in {"stubs", "mixed", "repeat"}}

\* a caller calls p.GetMissingTracks()
CallGetMissingTracks(g, pl) ==
    /\ proc[g].pc = "idle"
    /\ calls < MaxCalls
    /\ calls' = calls + 1
    /\ proc' = [proc EXCEPT ![g] =
                  [Idle EXCEPT !.op = "GetMissingTracks", !.pc = "tracks",
                               !.key = pl, !.u = pl]]
    /\ UNCHANGED <<now, cell, caches, sweeper, site, stored, retry>>

NextMissing ==
    \/ \E g \in Procs : Return(g)
    \/ /\ Quiet
       /\ \/ \E g \in Procs, pl \in InputPlaylists : CallGetMissingTracks(g, pl)
          \/ \E g \in Procs : TracksDo(g)

SpecMissing == Init /\ [][NextMissing]_vars

-----------------------------------------------------------------------------
(* Fix applied to an entity, and applied again *)

\* the identifiers Fix is given: every string of a few characters, the
\* separator among them, and the forms the API uses
InputIDs ==
    SeqsUpTo({":", "s", "4"}, MaxLen)
    \cup {Urn(TracksWord, 42), Urn(UsersWord, 42), FormatInt(42)}

RECURSIVE Concat(_)
Concat(ps) == IF ps = <<>> THEN <<>> ELSE Head(ps) \o Concat(Tail(ps))

\* the URLs Fix is given: a few pieces in a row, "-large." and "-t200x200."
\* among them
InputURLs ==
    {Concat(ps) : ps \in SeqsUpTo({Large, T200, <<"a">>, <<"-", "l">>}, MaxLen)}
    \cup {LargeURL("a")}

\* the entities Fix is given
FixInputs ==
    {[Kind |-> "track", ID |-> id, IDint |-> n, Title |-> <<"x">>, Artwork |-> <<>>] :
        id \in InputIDs, n \in {0, 42}}
    \cup {[Kind |-> "user", ID |-> id, Avatar |-> <<>>] : id \in InputIDs}
    \cup {[Kind |-> "track", ID |-> FormatInt(42), IDint |-> 42, Title |-> <<"x">>,
           Artwork |-> url] : url \in InputURLs}
    \cup {[Kind |-> "user", ID |-> FormatInt(42), Avatar |-> url] : url \in InputURLs}
    \cup {[Kind |-> "playlist", Artwork |-> url, Tracks |-> <<>>,
           MissingTracks |-> <<>>] : url \in InputURLs}

\* line 435: what Playlist.Fix(false) does
PlaylistFix(u) == [u EXCEPT !.Artwork = FixArtwork(@)]

\* u.Fix() for the entity u is
EntityFix(u) ==
    CASE u.Kind = "track" -> TrackFix(u)
      [] u.Kind = "user" -> UserFix(u)
      [] u.Kind = "playlist" -> PlaylistFix(u)

\* a caller holds an entity and is about to call its Fix
CallFix(g, e) ==
    /\ proc[g].pc = "idle"
    /\ calls < MaxCalls
    /\ calls' = calls + 1
    /\ proc' = [proc EXCEPT ![g] =
                  [Idle EXCEPT !.op = "Fix", !.pc = "fix", !.key = e, !.u = e]]
    /\ UNCHANGED <<now, cell, caches, sweeper, site, stored, retry>>

\* u.Fix(): seen keeps what the entity is after it
FixOnce(g) ==
    /\ proc[g].pc = "fix"
    /\ proc' = [proc EXCEPT ![g] =
                  [@ EXCEPT !.pc = "refix", !.u = EntityFix(@), !.seen = EntityFix(proc[g].u)]]
    /\ UNCHANGED <<now, cell, caches, sweeper, site, stored, calls, retry>>

\* u.Fix() a second time on the same entity
FixAgain(g) ==
    /\ proc[g].pc = "refix"
    /\ proc' = [proc EXCEPT ![g] = Finish(@, NoErr, EntityFix(proc[g].u))]
    /\ UNCHANGED <<now, cell, caches, sweeper, site, stored, calls, retry>>

NextFix ==
    \/ Return("g1")
    \/ \E e \in FixInputs : CallFix("g1", e)
    \/ FixOnce("g1")
    \/ FixAgain("g1")

SpecFix == Init /\ [][NextFix]_vars

-----------------------------------------------------------------------------
(* What the operations are claimed to do *)

\* the kinds of the upstream requests an operation issued, in order
Whats(pr) == [i \in 1..Len(pr.reqs) |-> pr.reqs[i].what]

\* goroutine g has this instant returned from GetUser, GetTrack or GetPlaylist
GetDone(g) == proc[g].pc = "done" /\ proc[g].op \in GetOps

\* the operation returned a value without having stored it: a cache hit
HitDone(g) == GetDone(g) /\ proc[g].ret.err = NoErr /\ ~proc[g].wrote

\* every GetClientID call of the operation took the fast path
TokenFresh(pr) == \A i \in 1..Len(pr.reqs) : pr.reqs[i].what \notin {"probe", "script"}

\* C2: a value returned from a cache hit comes from an entry whose Expires
\* is strictly later than the time of the read; an entry with Expires <= now
\* is never returned, swept or not.
C2_NoExpiredHit ==
    \A g \in Procs :
        HitDone(g) =>
            LET c == TypeOf(proc[g].op)
                k == proc[g].key
            IN  /\ k \in DOMAIN caches[c]
                /\ caches[c][k].Expires > now
                /\ proc[g].ret.val = caches[c][k].Value

\* a value is returned from the cache some time after it was stored
C2_Witness ==
    \E g \in Procs :
        /\ HitDone(g)
        /\ now > stored[TypeOf(proc[g].op)][proc[g].key].at

\* C3: after a successful GetX(k) that stored its value at time t, every
\* GetX(k) made strictly before t + TTL returns the stored value and issues
\* no upstream request (stored[c][k] is the value last stored for k, at the
\* time it was stored).
C3_TTLHit ==
    \A g \in Procs :
        (proc[g].pc # "idle" /\ proc[g].op \in GetOps /\ proc[g].seen = "fresh") =>
            /\ proc[g].pc = "done"
            /\ proc[g].ret.err = NoErr
            /\ proc[g].reqs = <<>>
            /\ ~proc[g].wrote
            /\ proc[g].ret.val = stored[TypeOf(proc[g].op)][proc[g].key].val

\* a user read in the last instant of its TTL returns with no request issued
C3_Witness ==
    \E g \in Procs :
        /\ GetDone(g)
        /\ proc[g].op = "GetUser"
        /\ proc[g].seen = "fresh"
        /\ now + 1 = stored["user"][proc[g].key].at + UserTTL
        /\ proc[g].reqs = <<>>

\* the case of C4: the key's stored value has expired, the token is within
\* its nextCheck window whenever asked for, and the operation succeeds
AfterExpiry(g) ==
    /\ GetDone(g)
    /\ proc[g].seen = "expired"
    /\ proc[g].ret.err = NoErr
    /\ TokenFresh(proc[g])

\* C4 as claimed: after expiry, with the token within its window, the next
\* GetX(k) issues exactly one upstream request.
C4_OneRequest ==
    \A g \in Procs : AfterExpiry(g) => Len(proc[g].reqs) = 1

\* C4 as amended: it issues one resolve request, GetPlaylist one batch track
\* fetch after it, and the result is stored again.
C4_RequestsAfterExpiry ==
    \A g \in Procs :
        AfterExpiry(g) =>
            /\ proc[g].wrote
            /\ Whats(proc[g]) = IF proc[g].op = "GetPlaylist"
                                THEN <<"resolve", "tracks">> ELSE <<"resolve">>

\* an expired playlist is resolved again
C4_Witness ==
    \E g \in Procs : AfterExpiry(g) /\ proc[g].op = "GetPlaylist" /\ proc[g].wrote

\* C5: with sweepers that run when their ticks are due, an entry is gone
\* from its map no later than one sweep period (the TTL) after its Expires.
C5_SweptWithinPeriod ==
    \A c \in Types : \A k \in DOMAIN caches[c] :
        now <= caches[c][k].Expires + TTL(c)

\* a stored entry that was never read again is gone, one period after expiry
C5_Witness ==
    \E c \in Types, k \in Keys :
        /\ stored[c][k].has
        /\ k \notin DOMAIN caches[c]
        /\ now <= stored[c][k].at + 2 * TTL(c)

\* C6: when the resolve succeeds and the decoded entity is of another kind,
\* the operation returns ErrKindNotCorrect and writes no cache; no cache
\* ever holds an entity of another kind.
C6_KindMismatch ==
    /\ \A g \in Procs :
          (GetDone(g) /\ proc[g].ret.val.Kind \notin {"", TypeOf(proc[g].op)}) =>
              /\ proc[g].ret.err = "ErrKindNotCorrect"
              /\ ~proc[g].wrote
    /\ \A c \in Types : \A k \in DOMAIN caches[c] : caches[c][k].Value.Kind = c

\* GetUser was given a playlist
C6_Witness ==
    \E g \in Procs :
        /\ GetDone(g)
        /\ proc[g].op = "GetUser"
        /\ proc[g].ret.val.Kind = "playlist"

\* C7: an operation that returns an error has written no cache.
C7_NoWriteOnFailure ==
    \A g \in Procs : (GetDone(g) /\ proc[g].ret.err # NoErr) => ~proc[g].wrote

\* GetPlaylist fails in the batch fetch of its missing tracks
C7_Witness ==
    \E g \in Procs :
        /\ GetDone(g)
        /\ proc[g].op = "GetPlaylist"
        /\ proc[g].ret.err # NoErr
        /\ Len(proc[g].reqs) > 0
        /\ proc[g].reqs[Len(proc[g].reqs)].what = "tracks"

\* C8 as claimed: GetClientID, past nextCheck and finding the version marker
\* unchanged, returns the cached token after the probe alone and leaves
\* nextCheck in the future (no other call being under way).
C8_UnchangedExtendsNextCheck ==
    \A g \in Procs :
        ( /\ proc[g].pc = "done"
          /\ proc[g].op = "GetClientID"
          /\ proc[g].ret.err = NoErr
          /\ Whats(proc[g]) = <<"probe">>
          /\ \A h \in Procs \ {g} : proc[h].pc = "idle" ) =>
            /\ proc[g].ret.val = cell.ClientIDString
            /\ cell.NextCheck > now

\* the response of a successful Proceed held no continuation: the field was
\* left out, or was the empty string
NoContinuation(pr) ==
    \/ pr.seen.field = "absent"
    \/ pr.seen.field = "value" /\ pr.seen.val = <<>>

\* C9 as claimed: after a successful Proceed whose page response has an
\* empty or absent next_href, p.Next is empty, so the caller's loop stops.
C9_EmptyContinuationStops ==
    \A g \in Procs :
        ( /\ proc[g].pc = "done"
          /\ proc[g].op = "Proceed"
          /\ proc[g].ret.err = NoErr
          /\ NoContinuation(proc[g]) ) => proc[g].ret.val.Next = <<>>

\* the ids a comma-joined string lists
ListedIDs(st) == IF st = <<>> THEN <<>> ELSE Split(st, ",")

\* the identifiers of the tracks without a title, in playlist order
StubIDs(pl) ==
    LET stubs == SelectSeq([i \in 1..Len(pl.Tracks) |-> pl.Tracks[i]],
                           LAMBDA t : t.Title = <<>>)
    IN  [j \in 1..Len(stubs) |-> stubs[j].ID]

\* the batch fetches an operation issued
BatchFetches(pr) == SelectSeq(pr.reqs, LAMBDA r : r.what = "tracks")

\* C10: one Playlist.GetMissingTracks call on a playlist with n stubs asks
\* for the first min(n, 50) stub identifiers, in playlist order, in a single
\* batch fetch, and on success leaves in MissingTracks the other n - 50
\* identifiers, comma-joined in playlist order (empty when n <= 50).
C10_Chunking ==
    \A g \in Procs :
        (proc[g].pc = "done" /\ proc[g].op = "GetMissingTracks") =>
            LET ids == StubIDs(proc[g].key)
                n == Len(ids)
                fetches == BatchFetches(proc[g])
            IN  /\ Len(fetches) <= 1
                /\ proc[g].ret.err = NoErr => Len(fetches) = 1
                /\ Len(fetches) = 1 =>
                      ListedIDs(fetches[1].arg) = SubSeq(ids, 1, Min(n, 50))
                /\ proc[g].ret.err = NoErr =>
                      ListedIDs(proc[g].ret.val.MissingTracks) = SubSeq(ids, 51, n)

\* the longest playlist, all stubs: 50 asked for, the others left
C10_Witness ==
    \E g \in Procs :
        /\ proc[g].pc = "done"
        /\ proc[g].op = "GetMissingTracks"
        /\ proc[g].ret.err = NoErr
        /\ Len(StubIDs(proc[g].key)) = MaxTracks
        /\ Len(ListedIDs(BatchFetches(proc[g])[1].arg)) = 50
        /\ Len(ListedIDs(proc[g].ret.val.MissingTracks)) = MaxTracks - 50

\* an identifier without the namespace: no ':' in it
Bare(id) == \A i \in 1..Len(id) : id[i] # ":"

\* C11 as claimed: every item of a page handed to a caller, by User.GetTracks,
\* by SearchTracks or by a later Proceed, has a bare identifier.
C11_PagesNormalized ==
    \A g \in Procs :
        ( /\ proc[g].pc = "done"
          /\ proc[g].op \in PagedOps
          /\ proc[g].ret.err = NoErr ) =>
            \A i \in 1..Len(proc[g].ret.val.Collection) :
                Bare(proc[g].ret.val.Collection[i].ID)

\* Fix was applied twice to the entity a caller held
FixedTwice(g) == proc[g].pc = "done" /\ proc[g].op = "Fix"

\* C12 as claimed: for every Track and User and every identifier, a bare
\* identifier is left as it is, "soundcloud:tracks:42" becomes "42", and Fix
\* applied twice gives the ID that Fix applied once gives.
C12_FixIdempotent ==
    \A g \in Procs :
        (FixedTwice(g) /\ proc[g].key.Kind \in {"track", "user"}) =>
            LET id == proc[g].key.ID
                once == proc[g].seen.ID
                twice == proc[g].ret.val.ID
            IN  /\ (id # <<>> /\ Bare(id)) => once = id
                /\ id = Urn(TracksWord, 42) => once = FormatInt(42)
                /\ twice = once

\* the artwork of a track or a playlist, the avatar of a user
Picture(e) == IF e.Kind = "user" THEN e.Avatar ELSE e.Artwork

\* C13 as claimed: the rewrite leaves a URL without "-large." as it is,
\* turns "/a-large.jpg" into "/a-t200x200.jpg", and applied twice gives the
\* string that it gives applied once.
C13_RewriteIdempotent ==
    \A g \in Procs :
        FixedTwice(g) =>
            LET url == Picture(proc[g].key)
                once == Picture(proc[g].seen)
                twice == Picture(proc[g].ret.val)
            IN  /\ Index(url, Large) = 0 => once = url
                /\ url = LargeURL("a") => once = <<"/", "a">> \o T200 \o <<"j", "p", "g">>
                /\ twice = once

\* C14 as claimed, for the batch GetTracks of reconciliation: a response
\* with a status other than 200 makes the operation return an error that
\* carries the status code.
C14_Non200IsError ==
    \A g \in Procs :
        ( /\ proc[g].pc = "done"
          /\ proc[g].op = "GetMissingTracks"
          /\ Len(BatchFetches(proc[g])) = 1
          /\ proc[g].seen.err = NoErr
          /\ proc[g].seen.status # 200 ) =>
            proc[g].ret.err = StatusErr(proc[g].seen.status)

\* the cell holds the token and the version marker of one refresh
Paired(cl) ==
    \/ cl.ClientIDString = None /\ cl.Version = None
    \/ cl.Version \in Versions /\ cl.ClientIDString = TokenOf(cl.Version)

\* C15 as claimed, at the states where no goroutine is between its first and
\* its last write of the cell: the token in the cell is the token of the
\* version marker in the cell.
C15_NeverTorn ==
    (\A g \in Procs : proc[g].pc \notin {"w_ver", "w_next"}) => Paired(cell)

\* goroutine g has this instant stored and returned what it resolved
WroteDone(g) == GetDone(g) /\ proc[g].wrote

\* C16: a call that missed the cache resolves upstream itself and stores its
\* own result; when it returns, the cache holds for the key one entry, with
\* the value this call resolved and the expiry of this write, whatever entry
\* another call stored before it.
C16_LastWriteWins ==
    \A g \in Procs :
        WroteDone(g) =>
            LET c == TypeOf(proc[g].op)
                k == proc[g].key
            IN  /\ \E i \in 1..Len(proc[g].reqs) : proc[g].reqs[i].what = "resolve"
                /\ k \in DOMAIN caches[c]
                /\ caches[c][k] = [Value |-> proc[g].ret.val, Expires |-> now + TTL(c)]
                /\ stored[c][k] = [has |-> TRUE, val |-> proc[g].ret.val, at |-> now]

\* two calls for one key both missed and both resolved, to different values:
\* one has stored its value and returned, the other is about to store
C16_Witness ==
    \E g, h \in Procs :
        /\ g # h
        /\ WroteDone(g)
        /\ proc[g].seen = "never"
        /\ proc[h].pc = "write"
        /\ proc[h].op = proc[g].op
        /\ proc[h].key = proc[g].key
        /\ proc[h].seen = "never"
        /\ proc[h].u # proc[g].ret.val

\* the position of the first script with a client id, 0 when there is none
FirstMatch(scripts) ==
    IF \E i \in 1..Len(scripts) : scripts[i] = "match"
    THEN CHOOSE i \in 1..Len(scripts) :
             /\ scripts[i] = "match"
             /\ \A j \in 1..(i - 1) : scripts[j] # "match"
    ELSE 0

\* the number of scripts an operation fetched
Fetched(pr) == Cardinality({i \in 1..Len(pr.reqs) : pr.reqs[i].what = "script"})

\* the errors of a page without a version marker, without scripts, and of
\* scripts without a client id
DiscoveryErrs == {"ErrVersionNotFound", "ErrScriptNotFound", "ErrIDNotFound"}

\* C17: a full refresh fetches the page's scripts in order up to the first
\* one with a client id and no further, skipping those that fail or do not
\* match; it then stores the token with the page's version marker and
\* nextCheck = now + ClientIDTTL; ErrIDNotFound is returned only when every
\* script was fetched without a match, and with it, as with
\* ErrVersionNotFound and ErrScriptNotFound, the cell is as the call found it.
C17_DiscoveryOrder ==
    LET pr == proc["g1"]
        first == FirstMatch(site.scripts)
    IN  (pr.pc = "done" /\ pr.op = "GetClientID") =>
            /\ Fetched(pr) > 0 =>
                   /\ Whats(pr) = <<"probe">> \o [i \in 1..Fetched(pr) |-> "script"]
                   /\ IF first > 0
                      THEN /\ Fetched(pr) = first
                           /\ pr.ret = [err |-> NoErr, val |-> TokenOf(site.ver)]
                           /\ cell = [ClientIDString |-> TokenOf(site.ver),
                                      Version |-> site.ver,
                                      NextCheck |-> now + ClientIDTTL]
                      ELSE /\ Fetched(pr) = Len(site.scripts)
                           /\ pr.ret.err = "ErrIDNotFound"
            /\ pr.ret.err = "ErrIDNotFound" =>
                   /\ site.scripts # <<>>
                   /\ first = 0
                   /\ Fetched(pr) = Len(site.scripts)
            /\ pr.ret.err \in DiscoveryErrs => cell = pr.seen

\* a refresh that replaces an earlier token: the first script failed to
\* load, the second held the client id
C17_Witness ==
    LET pr == proc["g1"]
    IN  /\ pr.pc = "done"
        /\ pr.op = "GetClientID"
        /\ pr.ret.err = NoErr
        /\ pr.seen.Version \in Versions
        /\ pr.seen.Version # site.ver
        /\ site.scripts = <<"fail", "match">>
        /\ Fetched(pr) = 2

\* Playlist.GetMissingTracks has this instant returned nil to g
MissingDone(g) ==
    /\ proc[g].pc = "done"
    /\ proc[g].op = "GetMissingTracks"
    /\ proc[g].ret.err = NoErr

\* position i of the track sequence holds a track without a title
IsStub(tracks, i) == tracks[i].Title = <<>>

\* how many stubs the sequence holds up to position i
Rank(tracks, i) == Cardinality({j \in 1..i : IsStub(tracks, j)})

\* the batch result holds a track with this identifier
Returned(res, id) == \E j \in 1..Len(res) : res[j].ID = id

\* the part of C18 that holds of every stub: same length, tracks with a title
\* untouched, a stub whose identifier is in the batch result replaced by a
\* returned track of that identifier, any other stub left as it was
SplicedByID(old, new, res) ==
    /\ Len(new) = Len(old)
    /\ \A i \in 1..Len(old) :
          IF ~IsStub(old, i) THEN new[i] = old[i]
          ELSE IF Returned(res, old[i].ID)
               THEN \E j \in 1..Len(res) : res[j].ID = old[i].ID /\ new[i] = res[j]
               ELSE new[i] = old[i]

\* C18 as claimed: the splice by identifier, and every stub past the first
\* 50 stubs is still a stub.
C18_SpliceFirstFifty ==
    \A g \in Procs :
        MissingDone(g) =>
            LET old == proc[g].key.Tracks
                new == proc[g].ret.val.Tracks
            IN  /\ SplicedByID(old, new, proc[g].seen.res)
                /\ \A i \in 1..Len(old) :
                      (IsStub(old, i) /\ Rank(old, i) > ChunkSize) => IsStub(new, i)

\* C18 (amended): after a successful Playlist.GetMissingTracks the sequence
\* has its length, tracks with a title are unchanged, every stub, wherever it
\* stands, whose identifier is in the batch result holds a returned track of
\* that identifier at its index, and every other stub is the original stub;
\* a stub past the first 50 stays a stub when no returned track has its
\* identifier.
C18_Splice ==
    \A g \in Procs :
        MissingDone(g) =>
            LET old == proc[g].key.Tracks
                new == proc[g].ret.val.Tracks
                res == proc[g].seen.res
            IN  /\ SplicedByID(old, new, res)
                /\ \A i \in 1..Len(old) :
                      ( /\ IsStub(old, i)
                        /\ Rank(old, i) > ChunkSize
                        /\ ~Returned(res, old[i].ID) ) => IsStub(new, i)

\* a playlist in which one of the first 50 stubs was filled in, one was left
\* because the batch result lacked it, and a stub past the first 50 was
\* filled in as well
C18_Witness ==
    \E g \in Procs :
        /\ MissingDone(g)
        /\ LET old == proc[g].key.Tracks
               new == proc[g].ret.val.Tracks
               res == proc[g].seen.res
           IN  /\ \E i \in 1..Len(old) :
                     IsStub(old, i) /\ Rank(old, i) <= ChunkSize /\ ~IsStub(new, i)
               /\ \E i \in 1..Len(old) :
                     /\ IsStub(old, i) /\ Rank(old, i) <= ChunkSize
                     /\ ~Returned(res, old[i].ID) /\ new[i] = old[i]
               /\ \E i \in 1..Len(old) :
                     IsStub(old, i) /\ Rank(old, i) > ChunkSize /\ ~IsStub(new, i)

\* C19 as claimed: when Proceed returns an error, p.Next and p.Collection are
\* what they were before the call.
C19_UnchangedOnFailure ==
    \A g \in Procs :
        ( /\ proc[g].pc = "done"
          /\ proc[g].op = "Proceed"
          /\ proc[g].ret.err # NoErr ) => proc[g].ret.val = proc[g].key

\* cache c loses key k in the step
Removed(c, k) == k \in DOMAIN caches[c] /\ k \notin DOMAIN caches'[c]

\* C20: a step that removes an entry from a cache removes one whose Expires
\* is strictly before the time of the step, so an entry a reader would still
\* return (Expires after now) is never removed, whatever wrote it; the
\* entries that stay are as they were, and the other two caches are as they
\* were.
C20_SweepOnlyExpired ==
    [][\A c \in Types : \A k \in Keys :
          Removed(c, k) =>
              /\ caches[c][k].Expires < now
              /\ now' = now
              /\ \A x \in DOMAIN caches'[c] :
                    x \in DOMAIN caches[c] /\ caches'[c][x] = caches[c][x]
              /\ \A x \in DOMAIN caches[c] :
                    caches[c][x].Expires >= now => x \in DOMAIN caches'[c]
              /\ \A d \in Types \ {c} : caches'[d] = caches[d]]_vars

\* a sweep has taken a stored entry from a cache and left the entry of
\* another key, which a reader would still be given
C20_Witness ==
    \E c \in Types : \E k, x \in Keys :
        /\ stored[c][k].has
        /\ k \notin DOMAIN caches[c]
        /\ x \in DOMAIN caches[c]
        /\ caches[c][x].Expires > now

=============================================================================
